---- MODULE Spec2Model ----
(***************************************************************************)
(* Model of src/index.ts: a ConcreteSubject holding a numeric state and a  *)
(* list of observers, with subscribe / unsubscribe / notify /              *)
(* someBusinessLogic, and the two observer variants ConcreteObserverA and  *)
(* ConcreteObserverB.  The program is single threaded and every method     *)
(* runs to completion, so each method call is one action.                  *)
(*                                                                         *)
(* state, observers : the two fields of the ConcreteSubject                *)
(* out              : the console lines written by the last method call    *)
(* calls            : the update() invocations made by the last call, in   *)
(*                    order: which observer, the state it read, whether it *)
(*                    wrote its reaction line                              *)
(* op               : the last method call: its name, its observer         *)
(*                    argument and the subject as it was when called       *)
(* removed          : the observers the subject has reported unsubscribed  *)
(*                    and has not reported subscribed since                *)
(* pc, passes       : the position of the client script of the file (how   *)
(*                    many of its six calls have run) and the number of    *)
(*                    notification passes those calls started              *)
(***************************************************************************)
EXTENDS Integers, Sequences, FiniteSets, TLC

VARIABLES state, observers, out, calls, op, removed, pc, passes

vars == <<state, observers, out, calls, op, removed, pc, passes>>

(* ---------------------------- bounds ----------------------------------- *)

\* number of observer objects the client creates
NumObservers == 3

\* Math.random() is modelled as k / RandomResolution for k in 0..RandomResolution-1
RandomResolution == 22

(* ---------------------- observer objects ------------------------------- *)

\* observer objects are identified by 1..NumObservers (object identity)
Observers == 1..NumObservers

\* the class of an observer object: odd ones are ConcreteObserverA, even ones ConcreteObserverB
ClassOf(o) == IF o % 2 = 1 THEN "ConcreteObserverA" ELSE "ConcreteObserverB"

\* the value "no observer argument" of a call record
NoObserver == 0

(* ------------------------- console lines ------------------------------- *)

\* a console line without an interpolated value
Line(text) == [text |-> text, hasValue |-> FALSE, value |-> 0]

\* a console line with ${subject.state} interpolated
LineWith(text, v) == [text |-> text, hasValue |-> TRUE, value |-> v]

(* --------------------------- Array helpers ----------------------------- *)

\* Array.prototype.includes on object references
Includes(s, x) == \E i \in 1..Len(s) : s[i] = x

\* Array.prototype.indexOf: first index (1-based here), -1 when absent
IndexOf(s, x) ==
    IF \E i \in 1..Len(s) : s[i] = x
    THEN CHOOSE i \in 1..Len(s) : s[i] = x /\ \A j \in 1..(i - 1) : s[j] # x
    ELSE -1

\* Array.prototype.splice(i, n) for a 1-based i: removes n elements from i on
Splice(s, i, n) ==
    LET last == IF i + n - 1 > Len(s) THEN Len(s) ELSE i + n - 1
    IN  SubSeq(s, 1, i - 1) \o SubSeq(s, last + 1, Len(s))

(* ----------------------------- Math ------------------------------------ *)

\* the values Math.random() can return: k / RandomResolution, in [0, 1)
Random == 0..(RandomResolution - 1)

\* Math.floor(r * m) for r = k / RandomResolution
FloorOfProduct(k, m) == (k * m) \div RandomResolution

(* --------------------------- the subject ------------------------------- *)

\* a ConcreteSubject object
SubjectOf(st, obs) == [class |-> "ConcreteSubject", state |-> st, observers |-> obs]

\* the result of a method call: the subject afterwards, the lines written, the update calls made
Result(subj, lines, cs) == [subj |-> subj, out |-> lines, calls |-> cs]

\* one update() invocation
Call(o, read, reacted) == [observer |-> o, read |-> read, reacted |-> reacted]

(* --------------------------- the observers ----------------------------- *)

ConcreteObserverA_update_assign(o, subject) ==
    LET s == [subject EXCEPT !.state = 7]
    IN  Result(s, <<LineWith("ConcreteObserverA: Reacted to the event. New value: ", s.state)>>,
               <<Call(o, s.state, TRUE)>>)

ConcreteObserverA_update_le(o, subject) ==
    IF subject.class = "ConcreteSubject" /\ subject.state <= 7
    THEN Result(subject,
                <<LineWith("ConcreteObserverA: Reacted to the event. New value: ", subject.state)>>,
                <<Call(o, subject.state, TRUE)>>)
    ELSE Result(subject, <<>>, <<Call(o, subject.state, FALSE)>>)

\* ConcreteObserverA.update
ConcreteObserverA_update(o, subject) ==
    IF subject.class = "ConcreteSubject" /\ subject.state < 7
    THEN Result(subject,
                <<LineWith("ConcreteObserverA: Reacted to the event. New value: ", subject.state)>>,
                <<Call(o, subject.state, TRUE)>>)
    ELSE Result(subject, <<>>, <<Call(o, subject.state, FALSE)>>)

ConcreteObserverB_update_gt(o, subject) ==
    IF subject.class = "ConcreteSubject" /\ subject.state > 7
    THEN Result(subject,
                <<LineWith("ConcreteObserverB: Reacted to the event. New value: ", subject.state)>>,
                <<Call(o, subject.state, TRUE)>>)
    ELSE Result(subject, <<>>, <<Call(o, subject.state, FALSE)>>)

ConcreteObserverB_update_detach(o, subject) ==
    IF subject.class = "ConcreteSubject" /\ subject.state >= 7
    THEN Result([subject EXCEPT !.observers = SelectSeq(subject.observers, LAMBDA x : x # o)],
                <<LineWith("ConcreteObserverB: Reacted to the event. New value: ", subject.state)>>,
                <<Call(o, subject.state, TRUE)>>)
    ELSE Result(subject, <<>>, <<Call(o, subject.state, FALSE)>>)

\* ConcreteObserverB.update
ConcreteObserverB_update(o, subject) ==
    IF subject.class = "ConcreteSubject" /\ subject.state >= 7
    THEN Result(subject,
                <<LineWith("ConcreteObserverB: Reacted to the event. New value: ", subject.state)>>,
                <<Call(o, subject.state, TRUE)>>)
    ELSE Result(subject, <<>>, <<Call(o, subject.state, FALSE)>>)

\* observer.update(this): dispatch on the class of the observer object
update(o, subject) ==
    IF ClassOf(o) = "ConcreteObserverA"
    THEN ConcreteObserverA_update(o, subject)
    ELSE ConcreteObserverB_update(o, subject)

(* ------------------------ ConcreteSubject methods ---------------------- *)

subscribe_nocheck(subj, observer) ==
    Result([subj EXCEPT !.observers = Append(subj.observers, observer)],
           <<Line("Subject: Subscribed an observer.")>>, <<>>)

subscribe_unshift(subj, observer) ==
    LET isExist == Includes(subj.observers, observer)
    IN  IF isExist
        THEN Result(subj, <<Line("Subject: Observer has been Subscribed already.")>>, <<>>)
        ELSE Result([subj EXCEPT !.observers = <<observer>> \o subj.observers],
                    <<Line("Subject: Subscribed an observer.")>>, <<>>)

subscribe_dup_moves_last(subj, observer) ==
    LET isExist == Includes(subj.observers, observer)
    IN  IF isExist
        THEN Result([subj EXCEPT !.observers =
                        Append(SelectSeq(subj.observers, LAMBDA x : x # observer), observer)],
                    <<Line("Subject: Observer has been Subscribed already.")>>, <<>>)
        ELSE Result([subj EXCEPT !.observers = Append(subj.observers, observer)],
                    <<Line("Subject: Subscribed an observer.")>>, <<>>)

subscribe_no_return(subj, observer) ==
    LET isExist == Includes(subj.observers, observer)
        warned  == IF isExist
                   THEN <<Line("Subject: Observer has been Subscribed already.")>>
                   ELSE <<>>
    IN  Result([subj EXCEPT !.observers = Append(subj.observers, observer)],
               warned \o <<Line("Subject: Subscribed an observer.")>>, <<>>)

subscribe_by_class(subj, observer) ==
    LET isExist == \E i \in 1..Len(subj.observers) : ClassOf(subj.observers[i]) = ClassOf(observer)
    IN  IF isExist
        THEN Result(subj, <<Line("Subject: Observer has been Subscribed already.")>>, <<>>)
        ELSE Result([subj EXCEPT !.observers = Append(subj.observers, observer)],
                    <<Line("Subject: Subscribed an observer.")>>, <<>>)

subscribe_sorted(subj, observer) ==
    LET isExist == Includes(subj.observers, observer)
    IN  IF isExist
        THEN Result(subj, <<Line("Subject: Observer has been Subscribed already.")>>, <<>>)
        ELSE Result([subj EXCEPT !.observers =
                        SelectSeq(subj.observers, LAMBDA x : x < observer)
                          \o <<observer>>
                          \o SelectSeq(subj.observers, LAMBDA x : x > observer)],
                    <<Line("Subject: Subscribed an observer.")>>, <<>>)

\* ConcreteSubject.subscribe
subscribe(subj, observer) ==
    LET isExist == Includes(subj.observers, observer)
    IN  IF isExist
        THEN Result(subj, <<Line("Subject: Observer has been Subscribed already.")>>, <<>>)
        ELSE Result([subj EXCEPT !.observers = Append(subj.observers, observer)],
                    <<Line("Subject: Subscribed an observer.")>>, <<>>)

unsubscribe_splice_rest(subj, observer) ==
    LET observerIndex == IndexOf(subj.observers, observer)
    IN  IF observerIndex = -1
        THEN Result(subj, <<Line("Subject: Nonexistent observer.")>>, <<>>)
        ELSE Result([subj EXCEPT !.observers = Splice(subj.observers, observerIndex, Len(subj.observers))],
                    <<Line("Subject: Unsubscribed an observer.")>>, <<>>)

unsubscribe_no_guard(subj, observer) ==
    LET observerIndex == IndexOf(subj.observers, observer)
        \* splice(-1, 1) removes the last element
        at == IF observerIndex = -1 THEN Len(subj.observers) ELSE observerIndex
    IN  Result([subj EXCEPT !.observers = Splice(subj.observers, at, 1)],
               <<Line("Subject: Unsubscribed an observer.")>>, <<>>)

unsubscribe_splice_none(subj, observer) ==
    LET observerIndex == IndexOf(subj.observers, observer)
    IN  IF observerIndex = -1
        THEN Result(subj, <<Line("Subject: Nonexistent observer.")>>, <<>>)
        ELSE Result([subj EXCEPT !.observers = Splice(subj.observers, observerIndex, 0)],
                    <<Line("Subject: Unsubscribed an observer.")>>, <<>>)

unsubscribe_off_by_one(subj, observer) ==
    LET observerIndex == IndexOf(subj.observers, observer)
    IN  IF observerIndex = -1
        THEN Result(subj, <<Line("Subject: Nonexistent observer.")>>, <<>>)
        ELSE Result([subj EXCEPT !.observers = Splice(subj.observers, observerIndex + 1, 1)],
                    <<Line("Subject: Unsubscribed an observer.")>>, <<>>)

\* ConcreteSubject.unsubscribe
unsubscribe(subj, observer) ==
    LET observerIndex == IndexOf(subj.observers, observer)
    IN  IF observerIndex = -1
        THEN Result(subj, <<Line("Subject: Nonexistent observer.")>>, <<>>)
        ELSE Result([subj EXCEPT !.observers = Splice(subj.observers, observerIndex, 1)],
                    <<Line("Subject: Unsubscribed an observer.")>>, <<>>)

\* the for..of loop of notify from position i on: the array iterator reads
\* this.observers afresh at every step, and each update receives the subject
\* as the previous updates left it
RECURSIVE NotifyLoop(_, _, _, _)
NotifyLoop(subj, i, lines, cs) ==
    IF i > Len(subj.observers)
    THEN Result(subj, lines, cs)
    ELSE LET r == update(subj.observers[i], subj)
         IN  NotifyLoop(r.subj, i + 1, lines \o r.out, cs \o r.calls)

notify_skip_first(subj) ==
    NotifyLoop(subj, 2, <<Line("Subject: Notifying observers...")>>, <<>>)

\* ConcreteSubject.notify
notify(subj) ==
    NotifyLoop(subj, 1, <<Line("Subject: Notifying observers...")>>, <<>>)

someBusinessLogic_notify_first(subj, r) ==
    LET n       == notify(subj)
        changed == [n.subj EXCEPT !.state = FloorOfProduct(r, 10 + 1)]
    IN  Result(changed,
               <<Line("\nSubject: I'm doing something important.")>>
                 \o n.out
                 \o <<LineWith("Subject: My state has just changed to: ", changed.state)>>,
               n.calls)

someBusinessLogic_off_by_one(subj, r) ==
    LET changed == [subj EXCEPT !.state = FloorOfProduct(r, 10 + 2)]
        n       == notify(changed)
    IN  Result(n.subj,
               <<Line("\nSubject: I'm doing something important."),
                 LineWith("Subject: My state has just changed to: ", changed.state)>> \o n.out,
               n.calls)

someBusinessLogic_no_notify(subj, r) ==
    LET changed == [subj EXCEPT !.state = FloorOfProduct(r, 10 + 1)]
    IN  Result(changed,
               <<Line("\nSubject: I'm doing something important."),
                 LineWith("Subject: My state has just changed to: ", changed.state)>>,
               <<>>)

\* ConcreteSubject.someBusinessLogic, with r the value Math.random() returned
someBusinessLogic(subj, r) ==
    LET changed == [subj EXCEPT !.state = FloorOfProduct(r, 10 + 1)]
        n       == notify(changed)
    IN  Result(n.subj,
               <<Line("\nSubject: I'm doing something important."),
                 LineWith("Subject: My state has just changed to: ", changed.state)>> \o n.out,
               n.calls)

(* ------------------------------ actions -------------------------------- *)

\* the subject as it is now
This == SubjectOf(state, observers)

\* the record of a method call
OpOf(name, o) == [name |-> name, observer |-> o, pre |-> This]

\* the observers reported unsubscribed once the lines of a call with observer
\* argument o are written: the success line of unsubscribe adds o, the
\* success line of subscribe takes it out again
RECURSIVE RemovedAfter(_, _, _)
RemovedAfter(rem, lines, o) ==
    IF lines = <<>>
    THEN rem
    ELSE LET t == Head(lines).text
             next == IF t = "Subject: Unsubscribed an observer." THEN rem \cup {o}
                     ELSE IF t = "Subject: Subscribed an observer." THEN rem \ {o}
                     ELSE rem
         IN  RemovedAfter(next, Tail(lines), o)

\* the effect of a method call on the variables
Apply(r, name, o) ==
    /\ state' = r.subj.state
    /\ observers' = r.subj.observers
    /\ out' = r.out
    /\ calls' = r.calls
    /\ op' = OpOf(name, o)
    /\ removed' = RemovedAfter(removed, r.out, o)

\* new ConcreteSubject()
Init ==
    /\ state = 0
    /\ observers = <<>>
    /\ out = <<>>
    /\ calls = <<>>
    /\ op = [name |-> "new", observer |-> NoObserver, pre |-> SubjectOf(0, <<>>)]
    /\ removed = {}
    /\ pc = 0
    /\ passes = 0

\* subject.subscribe(o)
Subscribe ==
    /\ \E o \in Observers : Apply(subscribe(This, o), "subscribe", o)
    /\ UNCHANGED <<pc, passes>>

\* subject.unsubscribe(o)
Unsubscribe ==
    /\ \E o \in Observers : Apply(unsubscribe(This, o), "unsubscribe", o)
    /\ UNCHANGED <<pc, passes>>

\* subject.notify()
Notify ==
    /\ Apply(notify(This), "notify", NoObserver)
    /\ UNCHANGED <<pc, passes>>

\* subject.someBusinessLogic()
SomeBusinessLogic ==
    /\ \E r \in Random : Apply(someBusinessLogic(This, r), "someBusinessLogic", NoObserver)
    /\ UNCHANGED <<pc, passes>>

Next == Subscribe \/ Unsubscribe \/ Notify \/ SomeBusinessLogic

Spec == Init /\ [][Next]_vars

(* --------------------------- the client script ------------------------- *)

\* const observer1 = new ConcreteObserverA()
observer1 == 1

\* const observer2 = new ConcreteObserverB()
observer2 == 2

\* how many notification passes wrote their first line into lines
PassesIn(lines) ==
    Cardinality({i \in 1..Len(lines) : lines[i].text = "Subject: Notifying observers..."})

\* the n-th call of the script (counted from 0), with result r
Statement(n, r, name, o) ==
    /\ pc = n
    /\ Apply(r, name, o)
    /\ pc' = n + 1
    /\ passes' = passes + PassesIn(r.out)

\* subject.subscribe(observer1)
ScriptSubscribe1 == Statement(0, subscribe(This, observer1), "subscribe", observer1)

\* subject.subscribe(observer2)
ScriptSubscribe2 == Statement(1, subscribe(This, observer2), "subscribe", observer2)

\* the first subject.someBusinessLogic()
ScriptLogic1 ==
    \E r \in Random : Statement(2, someBusinessLogic(This, r), "someBusinessLogic", NoObserver)

\* the second subject.someBusinessLogic()
ScriptLogic2 ==
    \E r \in Random : Statement(3, someBusinessLogic(This, r), "someBusinessLogic", NoObserver)

\* subject.unsubscribe(observer2)
ScriptUnsubscribe2 == Statement(4, unsubscribe(This, observer2), "unsubscribe", observer2)

\* the last subject.someBusinessLogic()
ScriptLogic3 ==
    \E r \in Random : Statement(5, someBusinessLogic(This, r), "someBusinessLogic", NoObserver)

ScriptNext ==
    \/ ScriptSubscribe1
    \/ ScriptSubscribe2
    \/ ScriptLogic1
    \/ ScriptLogic2
    \/ ScriptUnsubscribe2
    \/ ScriptLogic3

\* the program of the file: the subject driven by the client script
ScriptSpec == Init /\ [][ScriptNext]_vars

(* ------------------- consecutive calls of one client ------------------- *)

\* two calls one after the other: the second starts from the subject the
\* first left, and their lines and update calls follow one another
Then(r1, r2) == Result(r2.subj, r1.out \o r2.out, r1.calls \o r2.calls)

\* subject.subscribe(o); subject.unsubscribe(o)
SubscribeThenUnsubscribe ==
    /\ \E o \in Observers :
          LET r1 == subscribe(This, o)
              r2 == unsubscribe(r1.subj, o)
          IN  Apply(Then(r1, r2), "subscribe;unsubscribe", o)
    /\ UNCHANGED <<pc, passes>>

\* subject.unsubscribe(o); subject.subscribe(o); subject.notify()
ResubscribeThenNotify ==
    /\ \E o \in Observers :
          LET r1 == unsubscribe(This, o)
              r2 == subscribe(r1.subj, o)
              r3 == notify(r2.subj)
          IN  Apply(Then(Then(r1, r2), r3), "unsubscribe;subscribe;notify", o)
    /\ UNCHANGED <<pc, passes>>

SequenceNext ==
    \/ Subscribe
    \/ Unsubscribe
    \/ Notify
    \/ SomeBusinessLogic
    \/ SubscribeThenUnsubscribe
    \/ ResubscribeThenNotify

\* the subject driven by single calls and by the two sequences of calls
SequenceSpec == Init /\ [][SequenceNext]_vars

(* ------------------------- auxiliary definitions ----------------------- *)

\* the last call ran a notification pass
IsPass == op.name \in {"notify", "someBusinessLogic"}

\* the observers of a sequence of update calls, in call order
RECURSIVE ObserversOf(_)
ObserversOf(cs) == IF cs = <<>> THEN <<>> ELSE <<Head(cs).observer>> \o ObserversOf(Tail(cs))

\* how many update calls of cs went to observer o
TimesCalled(cs, o) == Cardinality({i \in 1..Len(cs) : cs[i].observer = o})

\* how many lines of the last call carry the text t
CountLines(t) == Cardinality({i \in 1..Len(out) : out[i].text = t})

\* the positions of s, as a set
Positions(s) == 1..Len(s)

ReactionA == "ConcreteObserverA: Reacted to the event. New value: "
ReactionB == "ConcreteObserverB: Reacted to the event. New value: "

\* the update calls of the last call that went to observers of class c
CallsTo(c) == {i \in 1..Len(calls) : ClassOf(calls[i].observer) = c}

(* ------------------------------- C1 ------------------------------------ *)

\* C1: in every reachable state no observer appears more than once in the
\* subscriber sequence, however often subscribe is called with the same observer.
C1_NoDuplicateObservers ==
    \A i, j \in Positions(observers) : observers[i] = observers[j] => i = j

\* a repeated subscribe of an observer that is subscribed, among others
C1_Witness ==
    /\ op.name = "subscribe"
    /\ Includes(op.pre.observers, op.observer)
    /\ Len(observers) >= 2

(* ------------------------------- C2 ------------------------------------ *)

\* C2: a notification pass calls update on every observer that is subscribed
\* exactly once, in subscription order, and on no observer that is not
\* subscribed; all the calls are made when the call returns.
C2_NotifyEachOnceInOrder ==
    IsPass =>
        /\ ObserversOf(calls) = op.pre.observers
        /\ \A o \in Observers :
              TimesCalled(calls, o) = IF Includes(op.pre.observers, o) THEN 1 ELSE 0

\* a notify() over three observers whose subscription order is not their creation order
C2_Witness ==
    /\ op.name = "notify"
    /\ Len(calls) >= 3
    /\ calls[1].observer > calls[2].observer

(* ------------------------------- C3 ------------------------------------ *)

\* C3: subscribe(o) with o not subscribed appends o as the last element: the
\* length grows by one, the observers subscribed before keep their positions,
\* and the success line, not the duplicate diagnostic, is written.
C3_SubscribeAppends ==
    (op.name = "subscribe" /\ ~Includes(op.pre.observers, op.observer)) =>
        /\ Len(observers) = Len(op.pre.observers) + 1
        /\ observers[Len(observers)] = op.observer
        /\ \A i \in Positions(op.pre.observers) : observers[i] = op.pre.observers[i]
        /\ out = <<Line("Subject: Subscribed an observer.")>>

\* a new observer subscribed to a subject that already has two
C3_Witness ==
    /\ op.name = "subscribe"
    /\ ~Includes(op.pre.observers, op.observer)
    /\ Len(op.pre.observers) >= 2

(* ------------------------------- C4 ------------------------------------ *)

\* C4: subscribe(o) with o already subscribed changes nothing in the sequence,
\* writes the 'already subscribed' diagnostic instead of the success line, and returns.
C4_DuplicateSubscribeNoOp ==
    (op.name = "subscribe" /\ Includes(op.pre.observers, op.observer)) =>
        /\ observers = op.pre.observers
        /\ out = <<Line("Subject: Observer has been Subscribed already.")>>
        /\ CountLines("Subject: Subscribed an observer.") = 0

\* a repeated subscribe of an observer that is not the last of the sequence
C4_Witness ==
    /\ op.name = "subscribe"
    /\ Includes(op.pre.observers, op.observer)
    /\ Len(op.pre.observers) >= 2
    /\ op.pre.observers[Len(op.pre.observers)] # op.observer

(* ------------------------------- C5 ------------------------------------ *)

\* C5: unsubscribe(o) with o not subscribed changes nothing in the sequence,
\* writes the 'nonexistent observer' diagnostic instead of the success line, and returns.
C5_UnknownUnsubscribeNoOp ==
    (op.name = "unsubscribe" /\ ~Includes(op.pre.observers, op.observer)) =>
        /\ observers = op.pre.observers
        /\ out = <<Line("Subject: Nonexistent observer.")>>
        /\ CountLines("Subject: Unsubscribed an observer.") = 0

\* an unsubscribe of an observer that is not subscribed while others are
C5_Witness ==
    /\ op.name = "unsubscribe"
    /\ ~Includes(op.pre.observers, op.observer)
    /\ Len(op.pre.observers) >= 2

(* ------------------------------- C6 ------------------------------------ *)

\* C6: unsubscribe(o) with o subscribed removes exactly o: o is not in the
\* sequence afterwards, the length shrinks by one, and the other observers
\* are all still there in the same relative order.
C6_UnsubscribeRemovesExactlyOne ==
    (op.name = "unsubscribe" /\ Includes(op.pre.observers, op.observer)) =>
        /\ ~Includes(observers, op.observer)
        /\ Len(observers) = Len(op.pre.observers) - 1
        /\ observers = SelectSeq(op.pre.observers, LAMBDA x : x # op.observer)
        /\ out = <<Line("Subject: Unsubscribed an observer.")>>

\* the first of three subscribed observers is unsubscribed
C6_Witness ==
    /\ op.name = "unsubscribe"
    /\ Len(op.pre.observers) >= 3
    /\ op.pre.observers[1] = op.observer
    /\ Len(observers) = 2

(* ------------------------------- C7 ------------------------------------ *)

\* C7: for every state value in 0..10, ConcreteObserverA.update writes its
\* reaction line iff state < 7 and ConcreteObserverB.update iff state >= 7:
\* of an A and a B called in the same pass exactly one reacts.
C7_ReactionsPartition ==
    IsPass =>
        /\ \A i \in CallsTo("ConcreteObserverA") : calls[i].reacted <=> (calls[i].read < 7)
        /\ \A i \in CallsTo("ConcreteObserverB") : calls[i].reacted <=> (calls[i].read >= 7)
        /\ CountLines(ReactionA) = IF state < 7 THEN Cardinality(CallsTo("ConcreteObserverA")) ELSE 0
        /\ CountLines(ReactionB) = IF state >= 7 THEN Cardinality(CallsTo("ConcreteObserverB")) ELSE 0
        /\ \A i \in CallsTo("ConcreteObserverA"), j \in CallsTo("ConcreteObserverB") :
              calls[i].reacted # calls[j].reacted

\* a pass over an A and a B at the boundary value 7: B reacts, A does not
C7_Witness ==
    /\ IsPass
    /\ state = 7
    /\ CallsTo("ConcreteObserverA") # {}
    /\ CallsTo("ConcreteObserverB") # {}
    /\ CountLines(ReactionB) = 1
    /\ CountLines(ReactionA) = 0

(* ------------------------------- C8 ------------------------------------ *)

\* C8: state is always an integer in 0..10: it is 0 after construction and
\* every someBusinessLogic() assigns a value in 0..10.
C8_StateInRange ==
    /\ state \in 0..10
    /\ op.name = "new" => state = 0
    /\ op.name = "someBusinessLogic" => out[2].value \in 0..10

\* someBusinessLogic() has assigned the largest value
C8_Witness ==
    /\ op.name = "someBusinessLogic"
    /\ state = 10

(* ------------------------------- C9 ------------------------------------ *)

\* C9: in one someBusinessLogic() the assignment comes before the pass: every
\* observer called reads the value just assigned (the one announced), so all
\* observers of the pass read the same value and none reads the old one.
C9_ObserversReadNewState ==
    op.name = "someBusinessLogic" =>
        /\ out[2] = LineWith("Subject: My state has just changed to: ", state)
        /\ \A i \in Positions(calls) : calls[i].read = out[2].value
        /\ \A i, j \in Positions(calls) : calls[i].read = calls[j].read

\* someBusinessLogic() changed the state and notified two observers
C9_Witness ==
    /\ op.name = "someBusinessLogic"
    /\ Len(calls) >= 2
    /\ state # op.pre.state

(* ------------------------------- C10 ----------------------------------- *)

\* C10: only someBusinessLogic() changes the state: subscribe, unsubscribe,
\* notify and the update methods of both observer classes leave it as it was.
C10_OnlyBusinessLogicChangesState ==
    /\ op.name \in {"subscribe", "unsubscribe", "notify"} => state = op.pre.state
    /\ op.name = "someBusinessLogic" => state = out[2].value

\* a notify() over an A and a B on a subject whose state is not the initial one
C10_Witness ==
    /\ op.name = "notify"
    /\ CallsTo("ConcreteObserverA") # {}
    /\ CallsTo("ConcreteObserverB") # {}
    /\ state # 0

(* ------------------------------- C11 ----------------------------------- *)

\* the sequence obs holds exactly one ConcreteObserverA and one ConcreteObserverB
OneAOneB(obs) == Len(obs) = 2 /\ ClassOf(obs[1]) # ClassOf(obs[2])

\* the positions of the reaction lines of the last call
ReactionPositions == {i \in Positions(out) : out[i].text \in {ReactionA, ReactionB}}

\* the positions of the 'Notifying observers' lines of the last call
NotifyingPositions == {i \in Positions(out) : out[i].text = "Subject: Notifying observers..."}

\* C11: with one ConcreteObserverA and one ConcreteObserverB subscribed, every
\* pass writes exactly one reaction line: A's when state < 7, B's when
\* state >= 7, and it comes after the 'Notifying observers' line of the pass.
C11_ExactlyOneReaction ==
    (IsPass /\ OneAOneB(op.pre.observers)) =>
        /\ Cardinality(ReactionPositions) = 1
        /\ state < 7 => CountLines(ReactionA) = 1
        /\ state >= 7 => CountLines(ReactionB) = 1
        /\ \A i \in ReactionPositions :
              /\ out[i].value = state
              /\ \E j \in NotifyingPositions : j < i

\* scenario 1: A then B subscribed, state 3, a pass: only A's line
C11_Witness ==
    /\ IsPass
    /\ OneAOneB(op.pre.observers)
    /\ ClassOf(observers[1]) = "ConcreteObserverA"
    /\ state = 3
    /\ CountLines(ReactionA) = 1
    /\ CountLines(ReactionB) = 0

(* ------------------------------- C12 ----------------------------------- *)

\* the update calls of the last call that wrote a reaction line
ReactedCalls == {i \in Positions(calls) : calls[i].reacted}

\* C12: an observer that was unsubscribed and not subscribed again gets no
\* update call and writes no reaction line in a later pass; after subscribe A,
\* subscribe B, unsubscribe B, a pass with state >= 7 writes no reaction line.
C12_UnsubscribedNotNotified ==
    IsPass =>
        /\ \A o \in removed : TimesCalled(calls, o) = 0
        /\ Cardinality(ReactionPositions) = Cardinality(ReactedCalls)
        /\ ( /\ state >= 7
             /\ \E b \in removed : ClassOf(b) = "ConcreteObserverB"
             /\ \A i \in Positions(op.pre.observers) :
                   ClassOf(op.pre.observers[i]) = "ConcreteObserverA" )
           => ReactionPositions = {}

\* scenario 4: only A is left after B was unsubscribed, state 9, a pass: A is
\* called, B is not, and no reaction line is written
C12_Witness ==
    /\ IsPass
    /\ state = 9
    /\ Len(observers) = 1
    /\ ClassOf(observers[1]) = "ConcreteObserverA"
    /\ \E b \in removed : ClassOf(b) = "ConcreteObserverB"
    /\ Len(calls) = 1
    /\ ReactionPositions = {}

(* ------------------------------- C13 ----------------------------------- *)

\* the number of calls of the client script
ScriptLength == 6

\* C13: the client script runs to its end for every choice of the three
\* random values: before the end the next call can always run, exactly three
\* passes are run in all, and at the end the subscriber sequence is [observer1].
C13_ScriptCompletes ==
    /\ pc \in 0..ScriptLength
    /\ pc < ScriptLength => ENABLED ScriptNext
    /\ passes <= 3
    /\ pc = ScriptLength =>
          /\ passes = 3
          /\ observers = <<observer1>>
          /\ removed = {observer2}

\* the script has ended, with a last state that B would have reacted to
\* after one that A reacted to
C13_Witness ==
    /\ pc = ScriptLength
    /\ op.name = "someBusinessLogic"
    /\ op.pre.state < 7
    /\ state >= 7
    /\ observers = <<observer1>>

(* ------------------------------- C14 ----------------------------------- *)

\* the texts of the lines of the lifecycle events: subscribe success and
\* duplicate, unsubscribe success and absent, notify start, the two
\* reactions, the state-change announcement
LifecycleTexts ==
    { "Subject: Subscribed an observer.",
      "Subject: Observer has been Subscribed already.",
      "Subject: Unsubscribed an observer.",
      "Subject: Nonexistent observer.",
      "Subject: Notifying observers...",
      ReactionA,
      ReactionB,
      "Subject: My state has just changed to: " }

\* the text someBusinessLogic writes first, after a blank line
ImportantText == "\nSubject: I'm doing something important."

\* the lines of the last call are those of the lifecycle events it is made
\* of, one each, apart from lines whose text is in extra
LinesPerEvent(extra) ==
    /\ \A i \in Positions(out) : out[i].text \in LifecycleTexts \cup extra
    /\ op.name = "new" => out = <<>>
    /\ op.name = "subscribe" =>
          /\ Len(out) = 1
          /\ out[1].text \in { "Subject: Subscribed an observer.",
                               "Subject: Observer has been Subscribed already." }
    /\ op.name = "unsubscribe" =>
          /\ Len(out) = 1
          /\ out[1].text \in { "Subject: Unsubscribed an observer.",
                               "Subject: Nonexistent observer." }
    /\ IsPass =>
          /\ Cardinality(NotifyingPositions) = 1
          /\ Cardinality(ReactionPositions) = Cardinality(ReactedCalls)
    /\ op.name = "notify" =>
          /\ CountLines("Subject: My state has just changed to: ") = 0
          /\ Len(out) = 1 + Cardinality(ReactedCalls)
    /\ op.name = "someBusinessLogic" =>
          /\ CountLines("Subject: My state has just changed to: ") = 1
          /\ Len(out) = 2 + Cardinality(ReactedCalls) + Cardinality({t \in extra : CountLines(t) > 0})
          /\ \A t \in extra : CountLines(t) = 1

\* C14 as stated: every call writes exactly one line per lifecycle event
\* (subscribe success or duplicate, unsubscribe success or absent, notify
\* start, each reaction, the state-change announcement) and no other line.
C14_Original == LinesPerEvent({})

\* C14 (amended): every call writes exactly one line per lifecycle event and
\* no other line, except that someBusinessLogic also writes, first, the one
\* line "Subject: I'm doing something important." after a blank line.
C14_OneLinePerEvent ==
    /\ LinesPerEvent({ImportantText})
    /\ op.name = "someBusinessLogic" => out[1] = Line(ImportantText)
    /\ op.name # "someBusinessLogic" => CountLines(ImportantText) = 0

\* a someBusinessLogic() over three observers two of which react
C14_Witness ==
    /\ op.name = "someBusinessLogic"
    /\ Len(calls) >= 3
    /\ Cardinality(ReactedCalls) = 2
    /\ Len(out) = 5

(* ------------------------------- C15 ----------------------------------- *)

\* the positions of observer o in the sequence s
PositionsOf(s, o) == {i \in Positions(s) : s[i] = o}

\* the observers of s, other than o, that are objects of the class of o
TwinsIn(s, o) == {s[i] : i \in {j \in Positions(s) : s[j] # o /\ ClassOf(s[j]) = ClassOf(o)}}

\* C15: membership goes by object identity, not by class: an observer can be
\* subscribed while another object of its class is, the two then hold
\* separate positions, each is updated once per pass, and unsubscribing one
\* leaves the other subscribed.
C15_MembershipByIdentity ==
    /\ (op.name = "subscribe" /\ PositionsOf(op.pre.observers, op.observer) = {}) =>
          /\ Cardinality(PositionsOf(observers, op.observer)) = 1
          /\ \A t \in TwinsIn(op.pre.observers, op.observer) :
                /\ Cardinality(PositionsOf(observers, t)) = 1
                /\ PositionsOf(observers, t) # PositionsOf(observers, op.observer)
    /\ IsPass =>
          \A i \in Positions(op.pre.observers) :
              \A t \in TwinsIn(op.pre.observers, op.pre.observers[i]) :
                  /\ TimesCalled(calls, op.pre.observers[i]) = 1
                  /\ TimesCalled(calls, t) = 1
    /\ op.name = "unsubscribe" =>
          \A t \in TwinsIn(op.pre.observers, op.observer) :
              /\ Cardinality(PositionsOf(observers, t)) = 1
              /\ PositionsOf(op.pre.observers, op.observer) # {}
                    => PositionsOf(observers, op.observer) = {}

\* a second ConcreteObserverA object has just been subscribed next to the first
C15_Witness ==
    /\ op.name = "subscribe"
    /\ PositionsOf(op.pre.observers, op.observer) = {}
    /\ TwinsIn(op.pre.observers, op.observer) # {}
    /\ ClassOf(op.observer) = "ConcreteObserverA"
    /\ Len(observers) = Len(op.pre.observers) + 1

(* ------------------------------- C16 ----------------------------------- *)

\* C16: notify() and someBusinessLogic() leave the subscriber sequence as it
\* was: with ConcreteObserverA and ConcreteObserverB objects subscribed, the
\* sequence at the end of a pass has the elements and the order it had at
\* the start of the pass.
C16_PassKeepsObservers ==
    IsPass =>
        /\ Len(observers) = Len(op.pre.observers)
        /\ \A i \in Positions(observers) : observers[i] = op.pre.observers[i]

\* a pass over observers of both classes in which a ConcreteObserverB reacted
C16_Witness ==
    /\ IsPass
    /\ Len(observers) >= 2
    /\ \E i \in ReactedCalls : ClassOf(calls[i].observer) = "ConcreteObserverB"
    /\ CallsTo("ConcreteObserverA") # {}

(* ------------------------------- C17 ----------------------------------- *)

\* C17: for an observer o that is not subscribed, subscribe(o) followed at
\* once by unsubscribe(o) gives back the subscriber sequence as it was, the
\* same elements in the same order.
C17_SubscribeUnsubscribeRestores ==
    (op.name = "subscribe;unsubscribe" /\ PositionsOf(op.pre.observers, op.observer) = {}) =>
        /\ observers = op.pre.observers
        /\ out = <<Line("Subject: Subscribed an observer."),
                   Line("Subject: Unsubscribed an observer.")>>

\* the two calls were made for a new observer on a subject that has two
C17_Witness ==
    /\ op.name = "subscribe;unsubscribe"
    /\ PositionsOf(op.pre.observers, op.observer) = {}
    /\ Len(op.pre.observers) >= 2
    /\ op.observer \in removed

(* ------------------------------- C18 ----------------------------------- *)

\* the set of the elements of the sequence s
Elements(s) == {s[i] : i \in Positions(s)}

\* C18: for an observer o that is subscribed, unsubscribe(o) followed by
\* subscribe(o) keeps the set of observers but makes o the last element (its
\* old position is not restored), so the next pass notifies o after all others.
C18_ResubscribeMovesLast ==
    (op.name = "unsubscribe;subscribe;notify" /\ PositionsOf(op.pre.observers, op.observer) # {}) =>
        /\ Elements(observers) = Elements(op.pre.observers)
        /\ Len(observers) = Len(op.pre.observers)
        /\ observers[Len(observers)] = op.observer
        /\ SelectSeq(observers, LAMBDA x : x # op.observer)
              = SelectSeq(op.pre.observers, LAMBDA x : x # op.observer)
        /\ op.pre.observers[Len(op.pre.observers)] # op.observer => observers # op.pre.observers
        /\ Len(calls) = Len(observers)
        /\ calls[Len(calls)].observer = op.observer
        /\ \A i \in Positions(calls) : calls[i].observer = observers[i]

\* the first of three observers was unsubscribed and subscribed again, then notified last
C18_Witness ==
    /\ op.name = "unsubscribe;subscribe;notify"
    /\ Len(op.pre.observers) >= 3
    /\ op.pre.observers[1] = op.observer
    /\ calls[Len(calls)].observer = op.observer
    /\ calls[1].observer # op.observer

====
